---- MODULE Spec2Model ----
(***************************************************************************)
(* Media Platform Analytics (src/app/main.py): the sliding-window rate     *)
(* limiter, the per-media view log, the analytics aggregation and the      *)
(* Redis cache in front of it, with the two request handlers log_view and  *)
(* get_analytics split at their await points.                              *)
(***************************************************************************)
EXTENDS Integers, Sequences, FiniteSets, TLC

\* ------------------------------------------------------------ constants
RATE_LIMIT == 5
WINDOW == 60

\* a cache lifetime of two minutes
CACHE_TTL_Doubled == 2 * 60

CACHE_TTL == 60
SECONDS_PER_DAY == 86400

\* ------------------------------------------------------------ bounds
MaxProcs == 2
MaxMedia == 2
MaxTicks == 1
MaxViews == 1
SeqMaxTicks == 2
SeqMaxViews == 2
RateMaxTicks == 3
RateMaxAdmitted == 6
WriteMaxViews == 2
DayMaxTicks == 2
DayMaxViews == 3

Procs == 1 .. MaxProcs
MediaIds == 1 .. MaxMedia
Ips == {"1.2.3.4", "5.6.7.8"}
TickSteps == {1, 59, SECONDS_PER_DAY}

VARIABLES
    now,              \* datetime.utcnow(), in whole seconds
    ticks,            \* number of clock advances so far
    media_db,         \* the registered media ids
    views_db,         \* media id -> list of {"ip", "time"}
    rate_limit_store, \* ip -> list of timestamps
    redis,            \* the Redis keyspace: media id -> entry or NoEntry
    redis_mode,       \* "up", "down" (calls raise), "hung" (calls never answer)
    pc,               \* per request slot: the await point it is suspended at
    op,               \* per request slot: "none", "view" or "analytics"
    media_id,         \* per request slot: path parameter
    ip,               \* per request slot: request.client.host
    analytics,        \* per request slot: the local `analytics` of get_analytics
    response,         \* per request slot: what the handler returned or raised
    pos,              \* per request slot: index of the event log_view appended
    floor,            \* per request slot: acked[media_id] when get_analytics began
    acked,            \* media id -> highest event index whose log_view returned 200
    admitted,         \* ip -> every timestamp rate_limit ever appended
    late_put,         \* media id -> the cached entry was stored after a log_view
                      \*   returned 200, with a summary that misses its event
    prev              \* media id -> the last request on it that returned 200

vars == <<now, ticks, media_db, views_db, rate_limit_store, redis, redis_mode,
          pc, op, media_id, ip, analytics, response, pos, floor, acked, admitted,
          late_put, prev>>

clockVars == <<now, ticks>>
redisVars == <<redis, redis_mode>>
reqVars == <<pc, op, media_id, ip, analytics, response, pos, floor>>
histVars == <<acked, admitted, late_put, prev>>

\* ------------------------------------------------------------ values
NoEntry == [present |-> FALSE, val |-> <<>>, exp |-> 0]
NoAnalytics == [total_views |-> 0, unique_ips |-> 0, views_per_day |-> <<>>]
NoResponse == [status |-> 0, cached |-> FALSE, body |-> NoAnalytics]

HttpError(code) == [status |-> code, cached |-> FALSE, body |-> NoAnalytics]
ViewLogged == [status |-> 200, cached |-> FALSE, body |-> NoAnalytics]
AnalyticsResponse(c, a) == [status |-> 200, cached |-> c, body |-> a]

NoPrev == [kind |-> "none", body |-> NoAnalytics, at |-> 0]

\* ------------------------------------------------------------ pure helpers
\* timedelta.seconds: the seconds field of the normalised (days, seconds,
\* microseconds) triple, 0 <= seconds < 86400; the days field is dropped.
TimedeltaSeconds(delta) == delta % SECONDS_PER_DAY

\* [ts for ts in timestamps if (now - ts).seconds < WINDOW]
Prune(timestamps, t) ==
    SelectSeq(timestamps, LAMBDA ts : TimedeltaSeconds(t - ts) < WINDOW)

\* v["time"].date().isoformat()
IsoDate(t) ==
    LET d == (t \div SECONDS_PER_DAY) + 1
    IN  "1970-01-" \o (IF d < 10 THEN "0" ELSE "") \o ToString(d)

\* a loop that assigns 1 to the day's key instead of adding 1 to it
RECURSIVE ViewsPerDayAssigns(_, _)
ViewsPerDayAssigns(views, acc) ==
    IF views = <<>> THEN acc
    ELSE LET k == IsoDate(Head(views).time)
         IN  ViewsPerDayAssigns(Tail(views),
                 [x \in (DOMAIN acc) \cup {k} |-> IF x = k THEN 1 ELSE acc[x]])

\* the defaultdict(int) loop of get_analytics
RECURSIVE ViewsPerDay(_, _)
ViewsPerDay(views, acc) ==
    IF views = <<>> THEN acc
    ELSE LET k == IsoDate(Head(views).time)
             n == IF k \in DOMAIN acc THEN acc[k] ELSE 0
         IN  ViewsPerDay(Tail(views),
                 [x \in (DOMAIN acc) \cup {k} |-> IF x = k THEN n + 1 ELSE acc[x]])

EmptyDict == [x \in {} |-> 0]

\* an aggregation that depends on the time of the call: it counts only the
\* clients seen in the last WINDOW seconds
ComputeRecentClients(views) ==
    [total_views   |-> Len(views),
     unique_ips    |-> Cardinality({views[i].ip : i \in
                           {j \in DOMAIN views : now - views[j].time < WINDOW}}),
     views_per_day |-> ViewsPerDay(views, EmptyDict)]

\* an aggregation that counts every event as a new client
ComputeNoDedup(views) ==
    [total_views   |-> Len(views),
     unique_ips    |-> Len(views),
     views_per_day |-> ViewsPerDay(views, EmptyDict)]

\* total_views, unique_ips, views_per_day of get_analytics
Compute(views) ==
    [total_views   |-> Len(views),
     unique_ips    |-> Cardinality({views[i].ip : i \in DOMAIN views}),
     views_per_day |-> ViewsPerDay(views, EmptyDict)]

\* str(analytics): the text stored in Redis, as the tuple of its fields
Str(a) == <<a.total_views, a.unique_ips, a.views_per_day>>

\* a decoder that reads the first two fields in the wrong order
EvalSwapped(s) ==
    [total_views |-> s[2], unique_ips |-> s[1], views_per_day |-> s[3]]

\* eval(cached)
Eval(s) == [total_views |-> s[1], unique_ips |-> s[2], views_per_day |-> s[3]]

\* ------------------------------------------------------------ Redis
\* GET: nil for a missing key and for a key whose expiry has been reached
RedisGet(m) ==
    IF redis[m].present /\ now < redis[m].exp THEN redis[m] ELSE NoEntry

\* SETEX key ttl value
RedisSetex(m, ttl, v) ==
    [redis EXCEPT ![m] = [present |-> TRUE, val |-> v, exp |-> now + ttl]]

\* a DEL that empties the whole keyspace
RedisFlushAll(m) == [x \in MediaIds |-> NoEntry]

\* DEL that leaves the key in place
RedisDeleteKept(m) == redis

\* DEL key
RedisDelete(m) == [redis EXCEPT ![m] = NoEntry]

Max(a, b) == IF a >= b THEN a ELSE b

\* ------------------------------------------------------------ initial state
Init ==
    /\ now = 0
    /\ ticks = 0
    /\ media_db = {}
    /\ views_db = [m \in MediaIds |-> <<>>]
    /\ rate_limit_store = [i \in Ips |-> <<>>]
    /\ redis = [m \in MediaIds |-> NoEntry]
    /\ redis_mode = "up"
    /\ pc = [p \in Procs |-> "idle"]
    /\ op = [p \in Procs |-> "none"]
    /\ media_id = [p \in Procs |-> 1]
    /\ ip = [p \in Procs |-> "1.2.3.4"]
    /\ analytics = [p \in Procs |-> NoAnalytics]
    /\ response = [p \in Procs |-> NoResponse]
    /\ pos = [p \in Procs |-> 0]
    /\ floor = [p \in Procs |-> 0]
    /\ acked = [m \in MediaIds |-> 0]
    /\ admitted = [i \in Ips |-> <<>>]
    /\ late_put = [m \in MediaIds |-> FALSE]
    /\ prev = [m \in MediaIds |-> NoPrev]

\* ------------------------------------------------------------ rate limiter
\* a limiter with one cap for all clients together
RateLimitGlobalCap(i) ==
    LET kept == Prune(rate_limit_store[i], now)
        all  == {<<j, k>> \in Ips \X (1 .. RATE_LIMIT) :
                     k <= Len(Prune(rate_limit_store[j], now))}
        full == Cardinality(all) >= RATE_LIMIT
    IN  [raised |-> full,
         store  |-> IF full THEN kept ELSE Append(kept, now)]

\* a write-back that drops the newest retained timestamp, as a stale copy of
\* the list written over a concurrent append would
RateLimitLosesUpdate(i) ==
    LET kept == Prune(rate_limit_store[i], now)
        full == Len(kept) >= RATE_LIMIT
    IN  [raised |-> full,
         store  |-> IF full THEN kept
                    ELSE Append(SubSeq(kept, 1, Len(kept) - 1), now)]

\* a limiter that records the attempt before it checks the capacity
RateLimitCountsRejected(i) ==
    LET kept == Prune(rate_limit_store[i], now)
    IN  [raised |-> Len(kept) >= RATE_LIMIT, store |-> Append(kept, now)]

\* a capacity check that lets one request too many through
RateLimitOffByOne(i) ==
    LET kept == Prune(rate_limit_store[i], now)
        full == Len(kept) > RATE_LIMIT
    IN  [raised |-> full,
         store  |-> IF full THEN kept ELSE Append(kept, now)]

\* rate_limit(ip) called at time now: the pruned window, whether the request
\* is admitted, and the window it leaves in rate_limit_store[ip]
RateLimit(i) ==
    LET kept == Prune(rate_limit_store[i], now)
        full == Len(kept) >= RATE_LIMIT
    IN  [raised |-> full,
         store  |-> IF full THEN kept ELSE Append(kept, now)]

\* a handler returns or raises: the slot keeps the response, the locals die
Finish(p, r) ==
    /\ pc' = [pc EXCEPT ![p] = "done"]
    /\ response' = [response EXCEPT ![p] = r]
    /\ analytics' = [analytics EXCEPT ![p] = NoAnalytics]
    /\ pos' = [pos EXCEPT ![p] = 0]

Begin(p, o, m, i) ==
    /\ pc[p] \in {"idle", "done"}
    /\ op' = [op EXCEPT ![p] = o]
    /\ media_id' = [media_id EXCEPT ![p] = m]
    /\ ip' = [ip EXCEPT ![p] = i]

\* ------------------------------------------------------------ log_view
\* a log that takes the new event at its head
PrependView(log, i) == <<[ip |-> i, time |-> now]>> \o log

\* views_db[media_id].append({"ip": ..., "time": datetime.utcnow()})
AppendView(log, i) == Append(log, [ip |-> i, time |-> now])

\* POST /media/{media_id}/view up to its await: rate_limit, the 404 check,
\* the append to views_db, and the DEL it sends
LogView(p, m, i) ==
    LET rl == RateLimit(i)
    IN  /\ Begin(p, "view", m, i)
        /\ rate_limit_store' = [rate_limit_store EXCEPT ![i] = rl.store]
        /\ admitted' = IF rl.raised THEN admitted
                       ELSE [admitted EXCEPT ![i] = Append(@, now)]
        /\ IF rl.raised
             THEN /\ Finish(p, HttpError(429))
                  /\ UNCHANGED views_db
           ELSE IF m \notin media_db
             THEN /\ Finish(p, HttpError(404))
                  /\ UNCHANGED views_db
           ELSE /\ views_db' = [views_db EXCEPT
                                   ![m] = AppendView(@, i)]
                /\ pos' = [pos EXCEPT ![p] = Len(views_db[m]) + 1]
                /\ pc' = [pc EXCEPT ![p] = "await_delete"]
                /\ response' = [response EXCEPT ![p] = NoResponse]
                /\ UNCHANGED analytics
        /\ UNCHANGED <<clockVars, media_db, redisVars, floor, acked, late_put, prev>>

\* await redis_client.delete(...) answers: the key is gone, 200 is returned
DeleteReply(p) ==
    /\ pc[p] = "await_delete"
    /\ redis_mode = "up"
    /\ redis' = RedisDelete(media_id[p])
    /\ Finish(p, ViewLogged)
    /\ acked' = [acked EXCEPT ![media_id[p]] = Max(@, pos[p])]
    /\ late_put' = [late_put EXCEPT ![media_id[p]] = FALSE]
    /\ prev' = [prev EXCEPT ![media_id[p]] =
                    [kind |-> "write", body |-> NoAnalytics, at |-> now]]
    /\ UNCHANGED <<clockVars, media_db, views_db, rate_limit_store, redis_mode,
                   op, media_id, ip, floor, admitted>>

\* ------------------------------------------------------------ get_analytics
\* GET /media/{media_id}/analytics up to its first await
GetAnalytics(p, m) ==
    /\ Begin(p, "analytics", m, ip[p])
    /\ floor' = [floor EXCEPT ![p] = acked[m]]
    /\ IF m \notin media_db
         THEN Finish(p, HttpError(404))
         ELSE /\ pc' = [pc EXCEPT ![p] = "await_get"]
              /\ response' = [response EXCEPT ![p] = NoResponse]
              /\ UNCHANGED <<analytics, pos>>
    /\ UNCHANGED <<clockVars, media_db, views_db, rate_limit_store, redisVars,
                   histVars>>

\* await redis_client.get(...) answers: a hit returns the decoded text, a
\* miss aggregates views_db[media_id] and sends SETEX
GetReply(p) ==
    /\ pc[p] = "await_get"
    /\ redis_mode = "up"
    /\ LET cached == RedisGet(media_id[p])
       IN  IF cached.present
             THEN /\ Finish(p, AnalyticsResponse(TRUE, Eval(cached.val)))
                  /\ prev' = [prev EXCEPT ![media_id[p]] =
                                  [kind |-> "hit", body |-> Eval(cached.val),
                                   at |-> @.at]]
             ELSE /\ analytics' = [analytics EXCEPT
                                      ![p] = Compute(views_db[media_id[p]])]
                  /\ pc' = [pc EXCEPT ![p] = "await_setex"]
                  /\ UNCHANGED <<response, prev, pos>>
    /\ UNCHANGED <<clockVars, media_db, views_db, rate_limit_store, redisVars,
                   op, media_id, ip, floor, acked, admitted, late_put>>

\* await redis_client.setex(...) answers: the summary is stored for 60 s
SetexReply(p) ==
    /\ pc[p] = "await_setex"
    /\ redis_mode = "up"
    /\ redis' = RedisSetex(media_id[p], CACHE_TTL, Str(analytics[p]))
    /\ Finish(p, AnalyticsResponse(FALSE, analytics[p]))
    /\ late_put' = [late_put EXCEPT
                       ![media_id[p]] = analytics[p].total_views < acked[media_id[p]]]
    /\ prev' = [prev EXCEPT ![media_id[p]] =
                    [kind |-> "miss", body |-> analytics[p], at |-> now]]
    /\ UNCHANGED <<clockVars, media_db, views_db, rate_limit_store, redis_mode,
                   op, media_id, ip, floor, acked, admitted>>

\* an awaited Redis call raises (connection refused, reset): nothing in
\* either handler catches it, the request ends in a 500
RedisRaise(p) ==
    /\ pc[p] \in {"await_delete", "await_get", "await_setex"}
    /\ redis_mode = "down"
    /\ Finish(p, HttpError(500))
    /\ UNCHANGED <<clockVars, media_db, views_db, rate_limit_store, redisVars,
                   op, media_id, ip, floor, histVars>>

\* ------------------------------------------------------------ environment
\* POST /media
CreateMedia ==
    /\ media_db' = media_db \cup {Cardinality(media_db) + 1}
    /\ UNCHANGED <<clockVars, views_db, rate_limit_store, redisVars, reqVars,
                   histVars>>

\* the clock advances
Tick(d) ==
    /\ now' = now + d
    /\ ticks' = ticks + 1
    /\ UNCHANGED <<media_db, views_db, rate_limit_store, redisVars, reqVars,
                   histVars>>

\* the Redis backend fails, stops answering, or recovers
RedisBackend(mode) ==
    /\ redis_mode # mode
    /\ redis_mode' = mode
    /\ UNCHANGED <<clockVars, media_db, views_db, rate_limit_store, redis,
                   reqVars, histVars>>

\* ------------------------------------------------------------ specifications
\* requests the model lets in: the logs and the admission history stay bounded
MayView(m, i, maxAdmitted, maxViews) ==
    /\ Len(admitted[i]) < maxAdmitted
    /\ m \in media_db => Len(views_db[m]) < maxViews

\* Spec: concurrent requests of one client on one media, Redis answering
Next ==
    \/ \E p \in Procs :
           /\ MayView(1, "1.2.3.4", MaxViews + 1, MaxViews)
           /\ LogView(p, 1, "1.2.3.4")
    \/ \E p \in Procs : DeleteReply(p)
    \/ \E p \in Procs : GetAnalytics(p, 1)
    \/ \E p \in Procs : GetReply(p)
    \/ \E p \in Procs : SetexReply(p)
    \/ media_db = {} /\ CreateMedia
    \/ ticks < MaxTicks /\ Tick(CACHE_TTL)

Spec == Init /\ [][Next]_vars

\* SpecSeq: one request at a time on one media, every client, Redis answering,
\* the clock moving by a second or by just under a minute
NextSeq ==
    \/ \E i \in Ips :
           /\ MayView(1, i, SeqMaxViews, SeqMaxViews)
           /\ LogView(1, 1, i)
    \/ DeleteReply(1)
    \/ GetAnalytics(1, 1)
    \/ GetReply(1)
    \/ SetexReply(1)
    \/ media_db = {} /\ CreateMedia
    \/ \E d \in {1, 59} : ticks < SeqMaxTicks /\ Tick(d)

SpecSeq == Init /\ [][NextSeq]_vars

\* SpecRate: view requests only, one at a time, on a media that may not be
\* registered yet, up to one more admission than the rate limit allows
NextRate ==
    \/ \E i \in {"1.2.3.4"} :
           /\ MayView(1, i, RateMaxAdmitted, RateMaxAdmitted)
           /\ LogView(1, 1, i)
    \/ DeleteReply(1)
    \/ media_db = {} /\ CreateMedia
    \/ \E d \in TickSteps : ticks < RateMaxTicks /\ Tick(d)

SpecRate == Init /\ [][NextRate]_vars

\* SpecWrite: one request at a time by one client on every media, registered
\* or not, Redis answering, the clock standing still
NextWrite ==
    \/ \E m \in MediaIds :
           /\ MayView(m, "1.2.3.4", RATE_LIMIT + 1, WriteMaxViews)
           /\ LogView(1, m, "1.2.3.4")
    \/ DeleteReply(1)
    \/ \E m \in MediaIds : GetAnalytics(1, m)
    \/ GetReply(1)
    \/ SetexReply(1)
    \/ Cardinality(media_db) < MaxMedia /\ CreateMedia

SpecWrite == Init /\ [][NextWrite]_vars

\* SpecPair: view requests of two clients, one at a time, on a media that may
\* not be registered yet, across one full window
NextPair ==
    \/ \E i \in Ips :
           /\ MayView(1, i, RATE_LIMIT + 1, WriteMaxViews)
           /\ LogView(1, 1, i)
    \/ DeleteReply(1)
    \/ media_db = {} /\ CreateMedia
    \/ ticks < MaxTicks /\ Tick(WINDOW)

SpecPair == Init /\ [][NextPair]_vars

\* SpecRace: concurrent view requests of one client on a media that may not
\* be registered yet, up to one admission past the rate limit
NextRace ==
    \/ \E p \in Procs :
           /\ MayView(1, "1.2.3.4", RATE_LIMIT + 1, RATE_LIMIT + 1)
           /\ LogView(p, 1, "1.2.3.4")
    \/ \E p \in Procs : DeleteReply(p)
    \/ media_db = {} /\ CreateMedia
    \/ ticks < MaxTicks /\ Tick(WINDOW)

SpecRace == Init /\ [][NextRace]_vars

\* SpecDay: one request at a time of one client on one media, Redis
\* answering, the clock moving by whole days
NextDay ==
    \/ /\ MayView(1, "1.2.3.4", DayMaxViews, DayMaxViews)
       /\ LogView(1, 1, "1.2.3.4")
    \/ DeleteReply(1)
    \/ GetAnalytics(1, 1)
    \/ GetReply(1)
    \/ SetexReply(1)
    \/ media_db = {} /\ CreateMedia
    \/ ticks < DayMaxTicks /\ Tick(SECONDS_PER_DAY)

SpecDay == Init /\ [][NextDay]_vars

\* SpecFault: one request at a time on one media, with a Redis backend that
\* can fail or stop answering. The event loop resumes a handler once its
\* awaited call has answered or raised, and a backend that is reachable again
\* and again does answer: strong fairness of the replies.
NextFault ==
    \/ /\ MayView(1, "1.2.3.4", MaxViews + 1, MaxViews)
       /\ LogView(1, 1, "1.2.3.4")
    \/ DeleteReply(1)
    \/ GetAnalytics(1, 1)
    \/ GetReply(1)
    \/ SetexReply(1)
    \/ RedisRaise(1)
    \/ media_db = {} /\ CreateMedia
    \/ ticks < MaxTicks /\ Tick(CACHE_TTL)
    \/ \E mode \in {"up", "down", "hung"} : RedisBackend(mode)

SpecFault ==
    /\ Init
    /\ [][NextFault]_vars
    /\ SF_vars(DeleteReply(1))
    /\ SF_vars(GetReply(1))
    /\ SF_vars(SetexReply(1))
    /\ SF_vars(RedisRaise(1))

\* ------------------------------------------------------------ claims
IsAnalytics200(p) ==
    pc[p] = "done" /\ op[p] = "analytics" /\ response[p].status = 200

\* the step in which get_analytics of slot p returns 200
Returns200(p) ==
    /\ pc[p] \in {"await_get", "await_setex"}
    /\ pc'[p] = "done"
    /\ response'[p].status = 200

\* C1 as stated: every get_analytics(r) that starts after a log_view(r) returned
\* 200 returns a summary whose total_views counts that event, whatever other
\* get_analytics(r) requests were in flight while the log_view ran.
C1_CoherentUnderEveryInterleaving ==
    \A p \in Procs :
        IsAnalytics200(p) => response[p].body.total_views >= floor[p]

\* C1 amended: a get_analytics(r) that starts after a log_view(r) returned 200
\* returns a summary that counts that event, unless it is a cache hit on an
\* entry that a get_analytics(r) stored after the log_view returned, with a
\* summary computed before the event was appended.
C1_CoherentUnlessLatePut ==
    [][\A p \in Procs :
          (Returns200(p) /\ ~(response'[p].cached /\ late_put[media_id[p]]))
              => response'[p].body.total_views >= floor[p]]_vars

\* C1 witness: a get_analytics that began after an acknowledged view has
\* returned a summary counting it, and another one has returned a cached copy.
C1_Witness ==
    \E p, q \in Procs :
        /\ p # q
        /\ IsAnalytics200(p) /\ floor[p] >= 1
        /\ response[p].body.total_views >= 1
        /\ IsAnalytics200(q) /\ floor[q] >= 1 /\ response[q].cached
        /\ response[q].body.total_views >= 1

\* C2: with one request at a time and Redis answering, the first get_analytics
\* after a log_view that returned 200 returns cached=false with the summary of
\* the current log, and a get_analytics that reads the cache before that entry's
\* 60 s have passed, with no write in between, returns cached=true with the
\* same total_views, unique_ips and views_per_day.
C2_MissThenHit ==
    [][\A p \in Procs :
          LET m == media_id[p]
          IN  /\ (Returns200(p) /\ prev[m].kind = "write")
                  => /\ ~response'[p].cached
                     /\ response'[p].body = Compute(views_db[m])
              /\ (/\ pc[p] = "await_get" /\ pc'[p] # "await_get"
                  /\ prev[m].kind = "miss"
                  /\ now < prev[m].at + CACHE_TTL)
                  => /\ pc'[p] = "done"
                     /\ response'[p] = AnalyticsResponse(TRUE, prev[m].body)]_vars

\* C2 witness: after a write, a miss and then a hit, 59 s later, on a summary
\* of two views of one client.
C2_Witness ==
    /\ IsAnalytics200(1) /\ response[1].cached
    /\ prev[1].kind = "hit" /\ now = prev[1].at + 59
    /\ response[1].body.total_views = 2 /\ response[1].body.unique_ips = 1
    /\ acked[1] = 2

\* the admitted timestamps of client i that lie in the WINDOW seconds ending at t
InWindow(i, t) ==
    {k \in DOMAIN admitted[i] : t - WINDOW < admitted[i][k] /\ admitted[i][k] <= t}

\* C3: a client's window never retains more than RATE_LIMIT timestamps, and no
\* more than RATE_LIMIT of its attempts are admitted within any WINDOW seconds
\* (so a 6th attempt less than 60 s after the 1st of five is rejected).
C3_AtMostRateLimitPerWindow ==
    \A i \in Ips :
        /\ Len(rate_limit_store[i]) <= RATE_LIMIT
        /\ \A k \in DOMAIN admitted[i] :
               Cardinality(InWindow(i, admitted[i][k])) <= RATE_LIMIT

\* C3 witness: five attempts admitted, and a sixth, 59 s after the first,
\* answered 429.
C3_Witness ==
    /\ pc[1] = "done" /\ op[1] = "view" /\ response[1].status = 429
    /\ Len(admitted[ip[1]]) = RATE_LIMIT
    /\ now = admitted[ip[1]][1] + 59

\* C4: an attempt made now is admitted whenever fewer than RATE_LIMIT of the
\* client's admitted attempts are less than WINDOW seconds old, however long
\* ago the older ones were made.
C4_AdmittedWhenWindowHasRoom ==
    \A i \in Ips :
        Cardinality(InWindow(i, now)) < RATE_LIMIT => ~RateLimit(i).raised

\* C5: log_view on a media id that is not registered answers 404, whatever
\* the state of the caller's rate window.
C5_NotFoundBeforeRateLimit ==
    \A p \in Procs :
        (pc[p] = "done" /\ op[p] = "view" /\ media_id[p] \notin media_db)
            => response[p].status = 404

\* C6: a Redis fault on get or setex is never surfaced by get_analytics: the
\* request still ends with the summary, not with an error.
C6_CacheFaultNotSurfaced ==
    \A p \in Procs :
        (pc[p] = "done" /\ op[p] = "analytics") => response[p].status # 500

\* C7: a failed cache invalidation never makes log_view report an error once
\* the event is appended.
C7_InvalidationFailureNotSurfaced ==
    \A p \in Procs :
        (pc[p] = "done" /\ op[p] = "view") => response[p].status # 500

\* C8: the summary computed on a cache miss has total_views equal to the
\* length of the media's log and unique_ips equal to the number of distinct
\* ips in it.
C8_SummaryCountsLog ==
    \A p \in Procs :
        LET m == media_id[p]
            a == IF pc[p] = "await_setex" THEN analytics[p] ELSE response[p].body
        IN  (pc[p] = "await_setex" \/ (IsAnalytics200(p) /\ ~response[p].cached))
                => /\ a.total_views = Len(views_db[m])
                   /\ a.unique_ips =
                          Cardinality({views_db[m][k].ip : k \in DOMAIN views_db[m]})

\* C8 witness: a miss has returned the summary of two views of one client.
C8_Witness ==
    /\ IsAnalytics200(1) /\ ~response[1].cached
    /\ response[1].body.total_views = 2 /\ response[1].body.unique_ips = 1

\* C9: get_analytics stores its summary for 60 s, and a cache read at or after
\* the entry's expiry instant finds nothing, whether or not a write invalidated
\* it: the request recomputes from the log and returns cached=false.
C9_ExpiredEntryIsAbsent ==
    [][\A p \in Procs :
          LET m == media_id[p]
          IN  /\ (pc[p] = "await_setex" /\ Returns200(p))
                  => /\ redis'[m].present /\ redis'[m].exp = now + 60
                     /\ response'[p] = AnalyticsResponse(FALSE, analytics[p])
              /\ (/\ pc[p] = "await_get" /\ pc'[p] # "await_get"
                  /\ redis[m].present /\ redis[m].exp <= now)
                  => /\ pc'[p] = "await_setex"
                     /\ analytics'[p] = Compute(views_db[m])]_vars

\* C9 witness: the entry a miss stored, never invalidated, reached its expiry
\* instant, and the next read has missed it.
C9_Witness ==
    /\ pc[1] = "await_setex"
    /\ prev[1].kind = "miss"
    /\ redis[1].present /\ redis[1].exp = now

\* C10: every log_view and get_analytics eventually returns, also when a Redis
\* call never answers.
C10_EveryRequestReturns ==
    \A p \in Procs :
        (pc[p] \in {"await_delete", "await_get", "await_setex"}) ~> (pc[p] = "done")

\* C11: after the pruning step of an attempt made now, every timestamp kept in
\* the client's window is less than WINDOW seconds old, however long ago the
\* client's previous attempt was.
C11_PrunedWindowIsRecent ==
    \A i \in Ips :
        LET kept == Prune(rate_limit_store[i], now)
        IN  \A k \in DOMAIN kept : now - kept[k] < WINDOW

\* C12: a log_view answered 429 leaves the client's window with no new
\* timestamp (it can only lose pruned ones), and leaves every view log and
\* every cache entry as they were.
C12_RejectionRecordsNothing ==
    [][\A p \in Procs, m \in MediaIds, i \in Ips :
          (LogView(p, m, i) /\ response'[p].status = 429)
              => /\ Len(rate_limit_store'[i]) <= Len(rate_limit_store[i])
                 /\ \A k \in DOMAIN rate_limit_store'[i] :
                        \E j \in DOMAIN rate_limit_store[i] :
                            rate_limit_store[i][j] = rate_limit_store'[i][k]
                 /\ \A j \in Ips \ {i} : rate_limit_store'[j] = rate_limit_store[j]
                 /\ views_db' = views_db
                 /\ redis' = redis]_vars

\* C12 witness: a view of a registered media with one logged event and a cached
\* summary has been answered 429.
C12_Witness ==
    /\ pc[1] = "done" /\ op[1] = "view" /\ response[1].status = 429
    /\ media_id[1] \in media_db
    /\ Len(views_db[media_id[1]]) = 1
    /\ redis[media_id[1]].present

\* the admitted timestamps of client i that are less than WINDOW seconds old
Recent(i) == SelectSeq(admitted[i], LAMBDA t : now - t < WINDOW)

\* C13: under every interleaving of concurrent view requests of one client,
\* its window never holds more than RATE_LIMIT timestamps, no more than
\* RATE_LIMIT attempts are admitted within WINDOW seconds, and every admitted
\* timestamp less than WINDOW seconds old is still in the window.
C13_AdmissionIsAtomic ==
    \A i \in Ips :
        LET w == rate_limit_store[i]
            r == Recent(i)
        IN  /\ Len(w) <= RATE_LIMIT
            /\ Len(r) <= RATE_LIMIT
            /\ Len(r) <= Len(w)
            /\ SubSeq(w, Len(w) - Len(r) + 1, Len(w)) = r

\* C13 witness: two admitted requests of one client are both suspended at the
\* cache invalidation, with the client's window full.
C13_Witness ==
    /\ pc[1] = "await_delete" /\ pc[2] = "await_delete"
    /\ ip[1] = ip[2]
    /\ Len(rate_limit_store[ip[1]]) = RATE_LIMIT

\* two requests that both missed the cache of media m and hold a summary to store
BothMissed(p, q, m) ==
    /\ p # q
    /\ pc[p] = "await_setex" /\ pc[q] = "await_setex"
    /\ media_id[p] = m /\ media_id[q] = m

IsPrefix(a, b) == Len(a) <= Len(b) /\ SubSeq(b, 1, Len(a)) = a

\* request p has just appended its view and sent the cache invalidation
AppendsView(p) == pc[p] # "await_delete" /\ pc'[p] = "await_delete"

\* C15: every step leaves each earlier view log a prefix of the later one; a
\* log_view that goes on to return 200 extends the log of its media by exactly
\* one event, carrying its client, and touches no other log; no other step
\* changes any log.
C15_LogsAreAppendOnly ==
    [][/\ \A m \in MediaIds : IsPrefix(views_db[m], views_db'[m])
       /\ \A p \in Procs :
              AppendsView(p) =>
                  LET m == media_id'[p]
                  IN  /\ Len(views_db'[m]) = Len(views_db[m]) + 1
                      /\ views_db'[m][Len(views_db'[m])].ip = ip'[p]
                      /\ \A m2 \in MediaIds \ {m} : views_db'[m2] = views_db[m2]
       /\ (\A p \in Procs : ~AppendsView(p)) => views_db' = views_db]_vars

\* C15 witness: two views of different clients, at different times, were
\* logged and the second has returned 200.
C15_Witness ==
    /\ pc[1] = "done" /\ op[1] = "view" /\ response[1].status = 200
    /\ Len(views_db[1]) = 2
    /\ views_db[1][1].ip # views_db[1][2].ip
    /\ views_db[1][1].time < views_db[1][2].time

\* C16: a log_view of client i leaves the window of every other client as it
\* was and is answered 429 exactly when i's own pruned window holds RATE_LIMIT
\* timestamps, whatever the other windows hold; no step changes the window of
\* a client that makes no request in it.
C16_WindowsAreIndependent ==
    [][/\ \A p \in Procs, m \in MediaIds, i \in Ips :
              LogView(p, m, i) =>
                  /\ \A j \in Ips \ {i} :
                         rate_limit_store'[j] = rate_limit_store[j]
                  /\ (response'[p].status = 429)
                         <=> (Len(Prune(rate_limit_store[i], now)) >= RATE_LIMIT)
       /\ \A j \in Ips :
              rate_limit_store'[j] # rate_limit_store[j]
                  => \E p \in Procs, m \in MediaIds : LogView(p, m, j)]_vars

\* C16 witness: one client was admitted and served while the window of the
\* other is full.
C16_Witness ==
    /\ pc[1] = "done" /\ op[1] = "view" /\ response[1].status = 200
    /\ ip[1] = "5.6.7.8"
    /\ Len(Prune(rate_limit_store["1.2.3.4"], now)) = RATE_LIMIT
    /\ Len(rate_limit_store["5.6.7.8"]) = 1

\* the calendar days, counted from the epoch, on which the log has an event
DaysOf(views) == {views[k].time \div SECONDS_PER_DAY : k \in DOMAIN views}

\* the number of events of the log on day d
EventsOn(views, d) ==
    Cardinality({k \in DOMAIN views : views[k].time \div SECONDS_PER_DAY = d})

RECURSIVE SumValues(_)
SumValues(f) ==
    IF DOMAIN f = {} THEN 0
    ELSE LET k == CHOOSE x \in DOMAIN f : TRUE
         IN  f[k] + SumValues([x \in DOMAIN f \ {k} |-> f[x]])

\* C17: in a summary computed from the log, views_per_day has a key exactly
\* for the dates on which the log has an event, each value is the number of
\* events of that date, and the values add up to total_views.
C17_ViewsPerDayPartitionsLog ==
    \A p \in Procs :
        LET views == views_db[media_id[p]]
            a     == IF pc[p] = "await_setex" THEN analytics[p] ELSE response[p].body
            vpd   == a.views_per_day
        IN  (pc[p] = "await_setex" \/ (IsAnalytics200(p) /\ ~response[p].cached))
                => /\ DOMAIN vpd = {IsoDate(d * SECONDS_PER_DAY) : d \in DaysOf(views)}
                   /\ Cardinality(DOMAIN vpd) = Cardinality(DaysOf(views))
                   /\ \A d \in DaysOf(views) :
                          vpd[IsoDate(d * SECONDS_PER_DAY)] = EventsOn(views, d)
                   /\ SumValues(vpd) = a.total_views

\* C17 witness: a summary computed from a log with two events on one day and
\* one on another was returned.
C17_Witness ==
    /\ IsAnalytics200(1) /\ ~response[1].cached
    /\ response[1].body.total_views = 3
    /\ Cardinality(DOMAIN response[1].body.views_per_day) = 2

\* request p has just got the answer of its cache invalidation and returned 200
ViewReturns200(p) ==
    pc[p] = "await_delete" /\ pc'[p] = "done" /\ response'[p].status = 200

\* C18: a log_view that returns 200 on media m removes the cache entry of m
\* only: neither its append nor its invalidation changes the cache entry or
\* the view log of another media, and a read of another media that would hit
\* before the invalidation still hits after it, with the same summary.
C18_InvalidationIsPerMedia ==
    [][\A p \in Procs :
          /\ AppendsView(p) =>
                 /\ redis' = redis
                 /\ \A m2 \in MediaIds \ {media_id'[p]} :
                        views_db'[m2] = views_db[m2]
          /\ ViewReturns200(p) =>
                 /\ ~redis'[media_id[p]].present
                 /\ \A m2 \in MediaIds \ {media_id[p]} :
                        /\ redis'[m2] = redis[m2]
                        /\ views_db'[m2] = views_db[m2]
                        /\ (redis[m2].present /\ now < redis[m2].exp)
                               => /\ redis'[m2].present /\ now' < redis'[m2].exp
                                  /\ Eval(redis'[m2].val) = Eval(redis[m2].val)]_vars

\* C18 witness: a view of media 1 has returned 200 and invalidated its cached
\* summary while media 2 has a view logged and its summary cached.
C18_Witness ==
    /\ pc[1] = "done" /\ op[1] = "view" /\ response[1].status = 200
    /\ media_id[1] = 1
    /\ Len(views_db[1]) = 2
    /\ ~redis[1].present
    /\ prev[1].kind = "write"
    /\ Len(views_db[2]) = 1
    /\ redis[2].present /\ now < redis[2].exp
    /\ Eval(redis[2].val).total_views = 1

\* C19: a log_view answered 404 changes no state: it records no timestamp in
\* any rate window, appends to no view log and touches no cache entry, so
\* requests for a media that does not exist take no room in the window that
\* later requests of the same client for an existing media are checked against.
C19_NotFoundRecordsNothing ==
    [][\A p \in Procs, m \in MediaIds, i \in Ips :
          (LogView(p, m, i) /\ response'[p].status = 404)
              => /\ rate_limit_store' = rate_limit_store
                 /\ views_db' = views_db
                 /\ redis' = redis]_vars

====
